---- MODULE Spec2Model ----
(***************************************************************************)
(* A model of node-msgpack (src/src/msgpack.cc): the binding's two entry   *)
(* points, pack and unpack, the recursive converters v8_to_msgpack and     *)
(* msgpack_to_v8, and the cycle guard MsgpackCycle.                        *)
(*                                                                         *)
(* 64-bit quantities (msgpack_object.via.u64 / .i64, the integral part of  *)
(* a host number) are sequences of 8 bytes, most significant first, which  *)
(* is also their order on the wire: the narrowing conversions of the code  *)
(* (uint64_t -> uint32_t, int64_t -> int32_t) are then exactly "keep the   *)
(* last four bytes".                                                       *)
(***************************************************************************)
EXTENDS Integers, Sequences, FiniteSets, TLC

\* heap: the host's composites (arrays and objects) by identity.
\* bytes_remaining: the property of that name on the unpack function (-1: not
\*   set yet).
\* calls: the calls made so far, each with what it was given and what it did.
\* todo: the calls the host program has yet to make.
\* ndebug: whether the addon was compiled with NDEBUG (assert compiled out).
VARIABLES heap, bytes_remaining, calls, todo, ndebug

vars == <<heap, bytes_remaining, calls, todo, ndebug>>

(***************************************************************************)
(* Bytes and fixed-width integers.                                         *)
(***************************************************************************)
Pow2(n) == 2 ^ n

Zeros(n) == [i \in 1..n |-> 0]

Ones(n) == [i \in 1..n |-> 255]

IsZero(b) == \A i \in 1..Len(b) : b[i] = 0

\* The last n bytes of b: what a conversion to an n-byte unsigned type keeps.
Low(b, n) == SubSeq(b, Len(b) - n + 1, Len(b))

\* The number of significant bytes of the unsigned value b.
SigBytes(b) == Len(b) - Cardinality({k \in 1..Len(b) : \A j \in 1..k : b[j] = 0})

\* Two's complement negation at the width of b.
Invert(b) == [i \in 1..Len(b) |-> 255 - b[i]]

TrailingFF(b) ==
    Cardinality({k \in 1..Len(b) : \A j \in (Len(b) - k + 1)..Len(b) : b[j] = 255})

AddOne(b) ==
    LET n == Len(b)
        k == TrailingFF(b)
    IN  [i \in 1..n |-> IF i > n - k THEN 0
                        ELSE IF i = n - k THEN b[i] + 1
                        ELSE b[i]]

Negate(b) == AddOne(Invert(b))

\* The value of a short big-endian byte string (callers keep it below 2^31).
RECURSIVE BE(_)
BE(b) == IF b = <<>> THEN 0 ELSE BE(SubSeq(b, 1, Len(b) - 1)) * 256 + b[Len(b)]

\* The n-byte big-endian form of a small natural.
ToBytes(x, n) ==
    [i \in 1..n |-> IF n - i > 3 THEN 0 ELSE (x \div Pow2(8 * (n - i))) % 256]

(***************************************************************************)
(* Host (V8) values.  A number is sign, integral magnitude (8 bytes) and a *)
(* flag for a fractional part of one half: d = (-1)^neg * (mag + half/2).  *)
(* neg with a zero magnitude and no half is the double -0.                 *)
(***************************************************************************)
Undefined == [t |-> "undefined"]

Null == [t |-> "null"]

Bool(b) == [t |-> "bool", b |-> b]

Num(neg, mag, half) == [t |-> "num", neg |-> neg, mag |-> mag, half |-> half]

\* A double this representation has no exact form for, kept as its IEEE bits.
NumBits(bits) == [t |-> "num", bits |-> bits]

Str(cps) == [t |-> "str", cps |-> cps]

Buf(bytes) == [t |-> "buf", bytes |-> bytes]

Ref(id) == [t |-> "ref", id |-> id]

Arr(elems) == [t |-> "array", elems |-> elems]

Obj(props) == [t |-> "object", props |-> props]

\* C's trunc(d), d != e and d > 0 on doubles (-0 == 0 in IEEE comparison).
trunc(d) == Num(d.neg, d.mag, FALSE)

NumIsZero(d) == IsZero(d.mag) /\ ~d.half

NumEq(d, e) == (NumIsZero(d) /\ NumIsZero(e)) \/ d = e

NumGtZero(d) == ~d.neg /\ ~NumIsZero(d)

(***************************************************************************)
(* String::Utf8Value and String::New(ptr, size): UTF-8 of code points      *)
(* below 0x10000, and its decoding (a malformed byte decodes to U+FFFD).   *)
(***************************************************************************)
Utf8Char(cp) ==
    IF cp < 128 THEN <<cp>>
    ELSE IF cp < 2048 THEN <<192 + (cp \div 64), 128 + (cp % 64)>>
    ELSE <<224 + (cp \div 4096), 128 + ((cp \div 64) % 64), 128 + (cp % 64)>>

RECURSIVE Utf8Value(_)
Utf8Value(cps) ==
    IF cps = <<>> THEN <<>> ELSE Utf8Char(Head(cps)) \o Utf8Value(Tail(cps))

IsCont(b, i) == i <= Len(b) /\ b[i] >= 128 /\ b[i] < 192

RECURSIVE Utf8Decode(_, _)
Utf8Decode(b, i) ==
    IF i > Len(b) THEN <<>>
    ELSE IF b[i] < 128 THEN <<b[i]>> \o Utf8Decode(b, i + 1)
    ELSE IF b[i] >= 194 /\ b[i] < 224 /\ IsCont(b, i + 1)
        THEN <<(b[i] - 192) * 64 + (b[i + 1] - 128)>> \o Utf8Decode(b, i + 2)
    ELSE IF b[i] >= 224 /\ b[i] < 240 /\ IsCont(b, i + 1) /\ IsCont(b, i + 2)
            /\ (b[i] - 224) * 4096 + (b[i + 1] - 128) * 64 >= 2048
        THEN <<(b[i] - 224) * 4096 + (b[i + 1] - 128) * 64 + (b[i + 2] - 128)>>
             \o Utf8Decode(b, i + 3)
    ELSE <<65533>> \o Utf8Decode(b, i + 1)

StringNew(b) == Str(Utf8Decode(b, 1))

(***************************************************************************)
(* MsgpackCycle: the list _objs of the composites on the current path.     *)
(***************************************************************************)
\* Value::StrictEquals on two composites: the same object.
StrictEquals(a, b) == a.id = b.id

\* A variant of out that pops nothing.
out_keeps(objs) == objs

\* MsgpackCycle::out: _objs.pop_back().
out(objs) == SubSeq(objs, 1, Len(objs) - 1)

\* MsgpackCycle::enter: on a match, this->out() and throw; else push_back.
enter(objs, v) ==
    IF \E i \in 1..Len(objs) : StrictEquals(objs[i], v)
    THEN [thrown |-> TRUE, objs |-> out(objs)]
    ELSE [thrown |-> FALSE, objs |-> Append(objs, v)]

(***************************************************************************)
(* v8_to_msgpack: host value -> msgpack_object, threading the cycle guard. *)
(* The result is [thrown, mo, objs]: whether a MsgpackException left the   *)
(* call, the node built, and _objs as the call leaves it.                  *)
(***************************************************************************)
Unset == [type |-> "UNSET"]

IsArray(v) == v.t = "ref" /\ heap[v.id].kind = "array"

\* A variant of the numeric branch that tests d >= 0 for the unsigned path.
NumberNode_ge(d) ==
    IF ~NumEq(trunc(d), d) THEN [type |-> "DOUBLE", dec |-> d]
    ELSE IF NumGtZero(d) \/ NumIsZero(d)
        THEN [type |-> "POSITIVE_INTEGER", u64 |-> d.mag]
    ELSE [type |-> "NEGATIVE_INTEGER", i64 |-> Negate(d.mag)]

\* The numeric branch (msgpack.cc lines 131-142).
NumberNode(d) ==
    IF ~NumEq(trunc(d), d) THEN [type |-> "DOUBLE", dec |-> d]
    ELSE IF NumGtZero(d) THEN [type |-> "POSITIVE_INTEGER", u64 |-> d.mag]
    ELSE [type |-> "NEGATIVE_INTEGER", i64 |-> Negate(d.mag)]

Done(mo, objs) == [thrown |-> FALSE, mo |-> mo, objs |-> objs]

Thrown(objs) == [thrown |-> TRUE, mo |-> Unset, objs |-> objs]

RECURSIVE v8_to_msgpack(_, _), ArrayLoop(_, _, _, _), MapLoop(_, _, _, _)
v8_to_msgpack(v8obj, objs) ==
    IF v8obj.t \in {"undefined", "null"} THEN Done([type |-> "NIL"], objs)
    ELSE IF v8obj.t = "bool"
        THEN Done([type |-> "BOOLEAN", boolean |-> v8obj.b], objs)
    ELSE IF v8obj.t = "num" THEN Done(NumberNode(v8obj), objs)
    ELSE IF v8obj.t = "str"
        THEN Done([type |-> "RAW", raw |-> Utf8Value(v8obj.cps)], objs)
    ELSE IF IsArray(v8obj) THEN
        LET e == enter(objs, v8obj)
        IN  IF e.thrown THEN Thrown(e.objs)
            ELSE LET r == ArrayLoop(heap[v8obj.id].elems, 1, e.objs, <<>>)
                 IN  IF r.thrown THEN Thrown(r.objs)
                     ELSE Done([type |-> "ARRAY", array |-> r.mo], out(r.objs))
    ELSE IF v8obj.t = "buf"
        THEN Done([type |-> "RAW", raw |-> v8obj.bytes], objs)
    ELSE
        LET e == enter(objs, v8obj)
        IN  IF e.thrown THEN Thrown(e.objs)
            ELSE LET r == MapLoop(heap[v8obj.id].props, 1, e.objs, <<>>)
                 IN  IF r.thrown THEN Thrown(r.objs)
                     ELSE Done([type |-> "MAP", map |-> r.mo], out(r.objs))

\* for (i = 0; i < l; i++) v8_to_msgpack(a->Get(i), &ptr[i], mz, mc);
ArrayLoop(elems, i, objs, acc) ==
    IF i > Len(elems) THEN Done(acc, objs)
    ELSE LET r == v8_to_msgpack(elems[i], objs)
         IN  IF r.thrown THEN Thrown(r.objs)
             ELSE ArrayLoop(elems, i + 1, r.objs, Append(acc, r.mo))

\* for each property name k: convert k, then o->Get(k).
MapLoop(props, i, objs, acc) ==
    IF i > Len(props) THEN Done(acc, objs)
    ELSE LET rk == v8_to_msgpack(props[i].k, objs)
         IN  IF rk.thrown THEN Thrown(rk.objs)
             ELSE LET rv == v8_to_msgpack(props[i].v, rk.objs)
                  IN  IF rv.thrown THEN Thrown(rv.objs)
                      ELSE MapLoop(props, i + 1, rv.objs,
                                   Append(acc, [key |-> rk.mo, val |-> rv.mo]))

(***************************************************************************)
(* IEEE-754 binary64 / binary32, for the doubles this model represents     *)
(* exactly: multiples of one half below 2^20 in magnitude.  h is twice the *)
(* magnitude, k the position of its leading bit.                           *)
(***************************************************************************)
Log2(h) == CHOOSE k \in 0..30 : Pow2(k) <= h /\ h < 2 * Pow2(k)

F64Bytes(d) ==
    IF "bits" \in DOMAIN d THEN d.bits
    ELSE LET h    == 2 * BE(Low(d.mag, 3)) + (IF d.half THEN 1 ELSE 0)
             sign == IF d.neg THEN 128 ELSE 0
         IN  IF h = 0 THEN <<sign>> \o Zeros(7)
             ELSE LET k   == Log2(h)
                      E   == k - 1 + 1023
                      m20 == (h - Pow2(k)) * Pow2(20 - k)
                  IN  <<sign + (E \div 16), (E % 16) * 16 + (m20 \div 65536),
                        (m20 \div 256) % 256, m20 % 256, 0, 0, 0, 0>>

FromIeee(neg, E, bias, top20, restZero, bits) ==
    IF E = 0 /\ top20 = 0 /\ restZero THEN Num(neg, Zeros(8), FALSE)
    ELSE LET e   == E - bias
             sig == Pow2(20) + top20
         IN  IF restZero /\ E # 0 /\ e >= -1 /\ e <= 19 /\ sig % Pow2(19 - e) = 0
             THEN LET h == sig \div Pow2(19 - e)
                  IN  Num(neg, ToBytes(h \div 2, 8), h % 2 = 1)
             ELSE NumBits(bits)

F64Value(b) ==
    FromIeee(b[1] >= 128, (b[1] % 128) * 16 + (b[2] \div 16), 1023,
             (b[2] % 16) * 65536 + b[3] * 256 + b[4],
             IsZero(SubSeq(b, 5, 8)), b)

F32Value(b) ==
    LET m23 == (b[2] % 128) * 65536 + b[3] * 256 + b[4]
    IN  FromIeee(b[1] >= 128, (b[1] % 128) * 2 + (b[2] \div 128), 127,
                 m23 \div 8, m23 % 8 = 0, b)

(***************************************************************************)
(* The MessagePack library (msgpack.h), from the wire format:              *)
(* msgpack_pack_object and msgpack_unpack.                                 *)
(***************************************************************************)
\* An i64 fits an n-byte signed integer (negative values).
FitsSigned(i, n) == (\A j \in 1..(8 - n) : i[j] = 255) /\ i[8 - n + 1] >= 128

pack_uint64(u) ==
    IF SigBytes(u) <= 1 /\ u[8] < 128 THEN <<u[8]>>
    ELSE IF SigBytes(u) <= 1 THEN <<204, u[8]>>
    ELSE IF SigBytes(u) <= 2 THEN <<205>> \o Low(u, 2)
    ELSE IF SigBytes(u) <= 4 THEN <<206>> \o Low(u, 4)
    ELSE <<207>> \o u

pack_int64(i) ==
    IF i[1] < 128 THEN pack_uint64(i)
    ELSE IF FitsSigned(i, 1) /\ i[8] >= 224 THEN <<i[8]>>
    ELSE IF FitsSigned(i, 1) THEN <<208, i[8]>>
    ELSE IF FitsSigned(i, 2) THEN <<209>> \o Low(i, 2)
    ELSE IF FitsSigned(i, 4) THEN <<210>> \o Low(i, 4)
    ELSE <<211>> \o i

RawHeader(n) ==
    IF n < 32 THEN <<160 + n>>
    ELSE IF n < 65536 THEN <<218>> \o ToBytes(n, 2)
    ELSE <<219>> \o ToBytes(n, 4)

ArrayHeader(n) ==
    IF n < 16 THEN <<144 + n>>
    ELSE IF n < 65536 THEN <<220>> \o ToBytes(n, 2)
    ELSE <<221>> \o ToBytes(n, 4)

MapHeader(n) ==
    IF n < 16 THEN <<128 + n>>
    ELSE IF n < 65536 THEN <<222>> \o ToBytes(n, 2)
    ELSE <<223>> \o ToBytes(n, 4)

\* The result is [rc, bytes]: rc is non-zero for a node of no known type.
RECURSIVE msgpack_pack_object(_), PackAll(_, _)
msgpack_pack_object(mo) ==
    LET ok(b) == [rc |-> 0, bytes |-> b]
    IN  CASE mo.type = "NIL" -> ok(<<192>>)
          [] mo.type = "BOOLEAN" -> ok(IF mo.boolean THEN <<195>> ELSE <<194>>)
          [] mo.type = "POSITIVE_INTEGER" -> ok(pack_uint64(mo.u64))
          [] mo.type = "NEGATIVE_INTEGER" -> ok(pack_int64(mo.i64))
          [] mo.type = "DOUBLE" -> ok(<<203>> \o F64Bytes(mo.dec))
          [] mo.type = "RAW" -> ok(RawHeader(Len(mo.raw)) \o mo.raw)
          [] mo.type = "ARRAY" ->
                LET r == PackAll(mo.array, 1)
                IN  [rc |-> r.rc, bytes |-> ArrayHeader(Len(mo.array)) \o r.bytes]
          [] mo.type = "MAP" ->
                LET kv == [i \in 1..(2 * Len(mo.map)) |->
                              IF i % 2 = 1 THEN mo.map[(i + 1) \div 2].key
                              ELSE mo.map[i \div 2].val]
                    r  == PackAll(kv, 1)
                IN  [rc |-> r.rc, bytes |-> MapHeader(Len(mo.map)) \o r.bytes]
          [] OTHER -> [rc |-> -1, bytes |-> <<>>]

PackAll(mos, i) ==
    IF i > Len(mos) THEN [rc |-> 0, bytes |-> <<>>]
    ELSE LET a == msgpack_pack_object(mos[i])
             b == PackAll(mos, i + 1)
         IN  IF a.rc # 0 THEN a
             ELSE [rc |-> b.rc, bytes |-> a.bytes \o b.bytes]

\* A length field; one of 2^31 or more exceeds any buffer of the model.
LenField(b) == IF Len(b) = 4 /\ b[1] >= 128 THEN 2147483647 ELSE BE(b)

\* The parser, from offset off (bytes consumed): [st, mo, off], st one of
\* "ok", "continue" (the buffer ends inside the object) and "error".
RECURSIVE Parse(_, _), ParseItems(_, _, _, _)
Parse(d, off) ==
    LET cont     == [st |-> "continue", mo |-> Unset, off |-> off]
        ok(m, n) == [st |-> "ok", mo |-> m, off |-> off + n]
        has(n)   == off + n <= Len(d)
        at(a, n) == SubSeq(d, off + a + 1, off + a + n)
        raw(hn)  ==
            IF ~has(1 + hn) THEN cont
            ELSE LET n == LenField(at(1, hn))
                 IN  IF Len(d) - (off + 1 + hn) < n THEN cont
                     ELSE ok([type |-> "RAW", raw |-> at(1 + hn, n)], 1 + hn + n)
        items(hn, n, isMap) ==
            LET r == ParseItems(d, off + 1 + hn, IF isMap THEN 2 * n ELSE n, <<>>)
            IN  IF r.st # "ok" THEN r
                ELSE IF isMap
                THEN [r EXCEPT !.mo = [type |-> "MAP", map |->
                        [i \in 1..n |-> [key |-> r.mo[2 * i - 1], val |-> r.mo[2 * i]]]]]
                ELSE [r EXCEPT !.mo = [type |-> "ARRAY", array |-> r.mo]]
        counted(hn, isMap) ==
            IF ~has(1 + hn) THEN cont ELSE items(hn, LenField(at(1, hn)), isMap)
        uint(n) ==
            IF ~has(1 + n) THEN cont
            ELSE ok([type |-> "POSITIVE_INTEGER", u64 |-> Zeros(8 - n) \o at(1, n)], 1 + n)
        int(n) ==
            IF ~has(1 + n) THEN cont
            ELSE IF d[off + 2] >= 128
            THEN ok([type |-> "NEGATIVE_INTEGER", i64 |-> Ones(8 - n) \o at(1, n)], 1 + n)
            ELSE ok([type |-> "POSITIVE_INTEGER", u64 |-> Zeros(8 - n) \o at(1, n)], 1 + n)
    IN  IF ~has(1) THEN cont
        ELSE LET t == d[off + 1]
             IN  CASE t < 128 -> ok([type |-> "POSITIVE_INTEGER", u64 |-> ToBytes(t, 8)], 1)
                   [] t >= 224 -> ok([type |-> "NEGATIVE_INTEGER", i64 |-> Ones(7) \o <<t>>], 1)
                   [] t >= 160 /\ t < 192 ->
                        IF Len(d) - (off + 1) < t - 160 THEN cont
                        ELSE ok([type |-> "RAW", raw |-> at(1, t - 160)], 1 + t - 160)
                   [] t >= 144 /\ t < 160 -> items(0, t - 144, FALSE)
                   [] t >= 128 /\ t < 144 -> items(0, t - 128, TRUE)
                   [] t = 192 -> ok([type |-> "NIL"], 1)
                   [] t = 194 -> ok([type |-> "BOOLEAN", boolean |-> FALSE], 1)
                   [] t = 195 -> ok([type |-> "BOOLEAN", boolean |-> TRUE], 1)
                   [] t = 202 -> IF ~has(5) THEN cont
                                 ELSE ok([type |-> "DOUBLE", dec |-> F32Value(at(1, 4))], 5)
                   [] t = 203 -> IF ~has(9) THEN cont
                                 ELSE ok([type |-> "DOUBLE", dec |-> F64Value(at(1, 8))], 9)
                   [] t >= 204 /\ t <= 207 -> uint(Pow2(t - 204))
                   [] t >= 208 /\ t <= 211 -> int(Pow2(t - 208))
                   [] t = 218 -> raw(2)
                   [] t = 219 -> raw(4)
                   [] t = 220 -> counted(2, FALSE)
                   [] t = 221 -> counted(4, FALSE)
                   [] t = 222 -> counted(2, TRUE)
                   [] t = 223 -> counted(4, TRUE)
                   [] OTHER -> [st |-> "error", mo |-> Unset, off |-> off]

ParseItems(d, off, n, acc) ==
    IF n = 0 THEN [st |-> "ok", mo |-> acc, off |-> off]
    ELSE LET r == Parse(d, off)
         IN  IF r.st # "ok" THEN r
             ELSE ParseItems(d, r.off, n - 1, Append(acc, r.mo))

\* msgpack_unpack(data, len, &off, zone, &result), called with off = 0.
msgpack_unpack(data) ==
    IF Len(data) <= 0 THEN [ret |-> "CONTINUE", off |-> 0, mo |-> Unset]
    ELSE LET r == Parse(data, 0)
         IN  CASE r.st = "error" -> [ret |-> "PARSE_ERROR", off |-> 0, mo |-> Unset]
               [] r.st = "continue" -> [ret |-> "CONTINUE", off |-> r.off, mo |-> Unset]
               [] OTHER -> [ret |-> IF r.off < Len(data) THEN "EXTRA_BYTES"
                                    ELSE "SUCCESS",
                            off |-> r.off, mo |-> r.mo]

(***************************************************************************)
(* msgpack_to_v8: msgpack_object -> host value, as [thrown, v].            *)
(***************************************************************************)
\* Integer::NewFromUnsigned(uint32_t) given a uint64_t: the low 32 bits.
IntegerNewFromUnsigned(u64) == Num(FALSE, Zeros(4) \o Low(u64, 4), FALSE)

\* Integer::New(int32_t) given an int64_t: the low 32 bits, as an int32.
IntegerNew(i64) ==
    LET i32 == Low(i64, 4)
    IN  IF i32[1] >= 128 THEN Num(TRUE, Zeros(4) \o Negate(i32), FALSE)
        ELSE Num(FALSE, Zeros(4) \o i32, FALSE)

\* Object::Set(key, value): assignment to an existing key keeps its place.
ObjectSet(props, k, v) ==
    IF \E i \in 1..Len(props) : props[i].k = k
    THEN [i \in 1..Len(props) |-> IF props[i].k = k THEN [k |-> k, v |-> v]
                                  ELSE props[i]]
    ELSE Append(props, [k |-> k, v |-> v])

RECURSIVE msgpack_to_v8(_), MapSetLoop(_, _, _)
msgpack_to_v8(mo) ==
    LET val(v) == [thrown |-> FALSE, v |-> v]
    IN  CASE mo.type = "NIL" -> val(Null)
          [] mo.type = "BOOLEAN" -> val(Bool(mo.boolean))
          [] mo.type = "POSITIVE_INTEGER" -> val(IntegerNewFromUnsigned(mo.u64))
          [] mo.type = "NEGATIVE_INTEGER" -> val(IntegerNew(mo.i64))
          [] mo.type = "DOUBLE" -> val(mo.dec)
          [] mo.type = "ARRAY" ->
                LET rs == [i \in 1..Len(mo.array) |-> msgpack_to_v8(mo.array[i])]
                IN  IF \E i \in 1..Len(rs) : rs[i].thrown
                    THEN [thrown |-> TRUE, v |-> Undefined]
                    ELSE val(Arr([i \in 1..Len(rs) |-> rs[i].v]))
          [] mo.type = "RAW" -> val(StringNew(mo.raw))
          [] mo.type = "MAP" -> MapSetLoop(mo.map, 1, <<>>)
          [] OTHER -> [thrown |-> TRUE, v |-> Undefined]

MapSetLoop(map, i, props) ==
    IF i > Len(map) THEN [thrown |-> FALSE, v |-> Obj(props)]
    ELSE LET rk == msgpack_to_v8(map[i].key)
             rv == msgpack_to_v8(map[i].val)
         IN  IF rk.thrown \/ rv.thrown THEN [thrown |-> TRUE, v |-> Undefined]
             ELSE MapSetLoop(map, i + 1, ObjectSet(props, rk.v, rv.v))

(***************************************************************************)
(* pack(args): the loop over the arguments, then ~MsgpackCycle.            *)
(***************************************************************************)
\* The result of a call, as logged: kind is "Buffer", "TypeError" (a
\* MsgpackException rethrown to the host), "Error", "value", "undefined" or
\* "abort" (the process ended in a failed assertion); caught is whether the
\* call caught a MsgpackException.
Result(op, args, kind, bytes, value, nodes, objs) ==
    [op |-> op, args |-> args, kind |-> kind, bytes |-> bytes, value |-> value,
     nodes |-> nodes, objs |-> objs, caught |-> kind = "TypeError"]

\* The argument the i-th iteration converts (i counts from 1): args[0].
PackArg(args, i) == args[1]

RECURSIVE PackLoop(_, _, _, _, _)
PackLoop(args, i, objs, sbuf, nodes) ==
    IF i > Len(args)
    THEN Result("pack", args, "Buffer", sbuf, Undefined, nodes, objs)
    ELSE LET r == v8_to_msgpack(PackArg(args, i), objs)
         IN  IF r.thrown
             THEN Result("pack", args, "TypeError", <<>>, Undefined, nodes, r.objs)
             ELSE LET p == msgpack_pack_object(r.mo)
                  IN  IF p.rc # 0
                      THEN Result("pack", args, "Error", <<>>, Undefined, nodes, r.objs)
                      ELSE PackLoop(args, i + 1, r.objs, sbuf \o p.bytes,
                                    Append(nodes, r.mo))

\* objs in the result is _objs as ~MsgpackCycle finds it.
pack(args) == PackLoop(args, 1, <<>>, <<>>, <<>>)

\* ~MsgpackCycle: assert(_objs.empty()), on every way out of pack.
AssertFails(c) == c.op = "pack" /\ c.objs # <<>>

Teardown(c) ==
    IF AssertFails(c) /\ ~ndebug THEN [c EXCEPT !.kind = "abort", !.bytes = <<>>]
    ELSE c

(***************************************************************************)
(* unpack(args), given the current bytes_remaining: the logged result and  *)
(* the property's new value.                                               *)
(***************************************************************************)
UnpackResult(args, kind, value) ==
    Result("unpack", args, kind, <<>>, value, <<>>, <<>>)

\* case MSGPACK_UNPACK_EXTRA_BYTES / MSGPACK_UNPACK_SUCCESS: set the property,
\* then convert (u is what msgpack_unpack returned).
OnParsed(args, br, u) ==
    LET c == msgpack_to_v8(u.mo)
    IN  [r  |-> IF c.thrown THEN UnpackResult(args, "TypeError", Undefined)
                ELSE UnpackResult(args, "value", c.v),
         br |-> Len(args[1].bytes) - u.off]

\* A variant of the CONTINUE case that falls into the default case.
OnContinue_throws(args, br, u) ==
    [r |-> UnpackResult(args, "Error", Undefined), br |-> br]

\* A variant of the CONTINUE case that sets the property as the success case
\* does.
OnContinue_sets(args, br, u) ==
    [r  |-> UnpackResult(args, "undefined", Undefined),
     br |-> Len(args[1].bytes) - u.off]

\* case MSGPACK_UNPACK_CONTINUE: return Undefined().
OnContinue(args, br, u) ==
    [r |-> UnpackResult(args, "undefined", Undefined), br |-> br]

\* default: throw Error("Error de-serializing object").
OnParseError(args, br, u) ==
    [r |-> UnpackResult(args, "Error", Undefined), br |-> br]

unpack(args, br) ==
    IF args = <<>> \/ args[1].t # "buf"
    THEN [r |-> UnpackResult(args, "TypeError", Undefined), br |-> br]
    ELSE LET u == msgpack_unpack(args[1].bytes)
         IN  CASE u.ret \in {"EXTRA_BYTES", "SUCCESS"} -> OnParsed(args, br, u)
               [] u.ret = "CONTINUE" -> OnContinue(args, br, u)
               [] OTHER -> OnParseError(args, br, u)

(***************************************************************************)
(* The host program: the values it passes and the calls it makes.          *)
(***************************************************************************)
MaxArgs == 2

MaxCalls == 3

NObj == 3

MaxEdges == 3

ObjIds == 1..NObj

\* Whole numbers by magnitude; the last five are 2^31, 2^31 + 1, 2^32 - 1,
\* 2^32 and 1e10.
Small(x) == ToBytes(x, 8)

Magnitudes ==
    {Small(x) : x \in {0, 1, 5, 32, 33, 127, 128, 255, 256, 32768, 32769, 65535, 65536}}
    \cup {<<0, 0, 0, 0, 128, 0, 0, 0>>, <<0, 0, 0, 0, 128, 0, 0, 1>>,
          <<0, 0, 0, 0, 255, 255, 255, 255>>, <<0, 0, 0, 1, 0, 0, 0, 0>>,
          <<0, 0, 0, 2, 84, 11, 228, 0>>}

Numbers ==
    {Num(neg, m, FALSE) : neg \in BOOLEAN, m \in Magnitudes}
    \cup {Num(neg, Small(x), TRUE) : neg \in BOOLEAN, x \in {0, 1, 2, 1000}}

\* "", "x", "ab" and "é" (U+00E9).
Strings == {Str(<<>>), Str(<<120>>), Str(<<97, 98>>), Str(<<233>>)}

Key(j) == Str(<<96 + j>>)

Whole(x) == Num(FALSE, Small(x), FALSE)

\* 1 = {a: 1, b: [1, 2, 3]} with 2 its array; 3 = [3] holds itself;
\* 4 = {a: {b: 4}} with 5 the inner object; 6 = [2, 2].
ExampleHeap ==
    <<[kind |-> "object", props |-> <<[k |-> Key(1), v |-> Whole(1)],
                                      [k |-> Key(2), v |-> Ref(2)]>>],
      [kind |-> "array", elems |-> <<Whole(1), Whole(2), Whole(3)>>],
      [kind |-> "array", elems |-> <<Ref(3)>>],
      [kind |-> "object", props |-> <<[k |-> Key(1), v |-> Ref(5)]>>],
      [kind |-> "object", props |-> <<[k |-> Key(2), v |-> Ref(4)]>>],
      [kind |-> "array", elems |-> <<Ref(2), Ref(2)>>]>>

ExampleRefs == {Ref(i) : i \in 1..6}

Values ==
    {Undefined, Null, Bool(TRUE), Bool(FALSE), Buf(<<>>), Buf(<<0, 255>>)}
    \cup Numbers \cup Strings \cup ExampleRefs

\* The values of the calls with several arguments.
ArgValues ==
    {Null, Bool(TRUE), Whole(1), Whole(5), Whole(256), Num(TRUE, Small(5), FALSE),
     Num(FALSE, Small(1), TRUE), Str(<<120>>), Buf(<<0, 255>>),
     Ref(1), Ref(2), Ref(3), Ref(4)}

ArgLists ==
    {<<v>> : v \in Values}
    \cup UNION {[1..n -> ArgValues] : n \in 2..MaxArgs}

\* A heap of NObj composites from a list of edges (parent, child), the
\* children of a composite in the order of the list; ks are the objects,
\* the others arrays.
EdgeLists == UNION {[1..n -> ObjIds \X ObjIds] : n \in 0..MaxEdges}

Children(es, i) ==
    LET mine == SelectSeq(es, LAMBDA e : e[1] = i)
    IN  [j \in 1..Len(mine) |-> Ref(mine[j][2])]

MkHeap(es, ks) ==
    [i \in ObjIds |->
        LET c == Children(es, i)
        IN  IF i \in ks
            THEN [kind |-> "object",
                  props |-> [j \in 1..Len(c) |-> [k |-> Key(j), v |-> c[j]]]]
            ELSE [kind |-> "array", elems |-> c]]

PackReq(args) == [op |-> "pack", args |-> args, cut |-> 0]

UnpackReq(v) == [op |-> "unpack", args |-> <<v>>, cut |-> 0]

\* unpack(b.slice(0, b.length - cut)) of the buffer b the last pack returned.
UnpackPackedReq(cut) == [op |-> "unpack_packed", args |-> <<>>, cut |-> cut]

Last == calls[Len(calls)]

(***************************************************************************)
(* The actions: one call of the host program each.  A call whose           *)
(* ~MsgpackCycle assertion fails ends the process in a build with          *)
(* assertions, and returns in a build with NDEBUG.                         *)
(***************************************************************************)
Alive == \A i \in 1..Len(calls) : calls[i].kind # "abort"

Pack ==
    /\ Alive
    /\ todo # <<>>
    /\ Head(todo).op = "pack"
    /\ calls' = Append(calls, Teardown(pack(Head(todo).args)))
    /\ todo' = Tail(todo)
    /\ UNCHANGED <<heap, bytes_remaining, ndebug>>

\* The argument of the call, and whether the host can make it: a slice needs
\* the Buffer of the pack call before.
UnpackArgs(req) ==
    IF req.op = "unpack" THEN req.args
    ELSE <<Buf(SubSeq(Last.bytes, 1, Len(Last.bytes) - req.cut))>>

CanUnpack(req) ==
    IF req.op = "unpack" THEN TRUE
    ELSE /\ req.op = "unpack_packed"
         /\ calls # <<>>
         /\ Last.op = "pack"
         /\ Last.kind = "Buffer"
         /\ req.cut <= Len(Last.bytes)

Unpack ==
    /\ Alive
    /\ todo # <<>>
    /\ CanUnpack(Head(todo))
    /\ LET u == unpack(UnpackArgs(Head(todo)), bytes_remaining)
       IN  /\ calls' = Append(calls, u.r)
           /\ bytes_remaining' = u.br
    /\ todo' = Tail(todo)
    /\ UNCHANGED <<heap, ndebug>>

(***************************************************************************)
(* The specifications, one per kind of host program.                       *)
(***************************************************************************)
MaxCut == 10

Fresh == bytes_remaining = -1 /\ calls = <<>> /\ ndebug \in BOOLEAN

\* pack of one composite of an arbitrary graph of composites.
InitGraph ==
    /\ \E es \in EdgeLists, ks \in SUBSET ObjIds : heap = MkHeap(es, ks)
    /\ Fresh
    /\ todo \in {<<PackReq(<<Ref(i)>>)>> : i \in ObjIds}

NextGraph == Pack

SpecGraph == InitGraph /\ [][NextGraph]_vars

\* One pack call, of one or several arguments.
InitPack ==
    /\ heap = ExampleHeap
    /\ Fresh
    /\ todo \in {<<PackReq(a)>> : a \in ArgLists}

NextPack == Pack

SpecPack == InitPack /\ [][NextPack]_vars

\* pack of one value, then unpack of a prefix of the buffer returned.
InitTrunc ==
    /\ heap = ExampleHeap
    /\ Fresh
    /\ todo \in {<<PackReq(<<v>>), UnpackPackedReq(k)>> : v \in Values, k \in 0..MaxCut}

NextTrunc == Pack \/ Unpack

SpecTrunc == InitTrunc /\ [][NextTrunc]_vars

\* pack of one or several arguments, then unpack of the buffer returned.
InitRound ==
    /\ heap = ExampleHeap
    /\ Fresh
    /\ todo \in {<<PackReq(a), UnpackPackedReq(0)>> : a \in ArgLists}

NextRound == Pack \/ Unpack

SpecRound == InitRound /\ [][NextRound]_vars

\* A sequence of unpack calls: 5; 5 then "x"; a raw header with no body; the
\* empty buffer; the reserved tag 0xc1; an array of 3 with 2 elements; an
\* array holding the reserved tag; a string, which is no Buffer.
CallInputs ==
    {Buf(<<5>>), Buf(<<5, 161, 120>>), Buf(<<161>>), Buf(<<>>), Buf(<<193>>),
     Buf(<<147, 1, 2>>), Buf(<<146, 1, 193>>), Str(<<120>>)}

InitCalls ==
    /\ heap = ExampleHeap
    /\ Fresh
    /\ todo \in UNION {[1..n -> {UnpackReq(b) : b \in CallInputs}] : n \in 1..MaxCalls}

NextCalls == Unpack

SpecCalls == InitCalls /\ [][NextCalls]_vars

(***************************************************************************)
(* The host's view of a value, and of the graph of composites, written     *)
(* without the converter.                                                  *)
(***************************************************************************)
RefIds(v) == IF v.t = "ref" THEN {v.id} ELSE {}

Kids(i) ==
    IF heap[i].kind = "array"
    THEN UNION {RefIds(heap[i].elems[j]) : j \in 1..Len(heap[i].elems)}
    ELSE UNION {RefIds(heap[i].props[j].v) : j \in 1..Len(heap[i].props)}

RECURSIVE Closure(_)
Closure(S) ==
    LET T == S \cup UNION {Kids(i) : i \in S}
    IN  IF T = S THEN S ELSE Closure(T)

\* Composite i is reachable from itself.
OnCycle(i) == i \in Closure(Kids(i))

\* Some composite reachable from v is reachable from itself.
Cyclic(v) == \E i \in Closure(RefIds(v)) : OnCycle(i)

\* The value as a tree (of a value that is not Cyclic).
RECURSIVE Tree(_)
Tree(v) ==
    IF v.t # "ref" THEN v
    ELSE IF heap[v.id].kind = "array"
    THEN Arr([j \in 1..Len(heap[v.id].elems) |-> Tree(heap[v.id].elems[j])])
    ELSE Obj([j \in 1..Len(heap[v.id].props) |->
                [k |-> heap[v.id].props[j].k, v |-> Tree(heap[v.id].props[j].v)]])

RECURSIVE Concat(_)
Concat(ss) == IF ss = <<>> THEN <<>> ELSE Head(ss) \o Concat(Tail(ss))

PackCalls == {i \in 1..Len(calls) : calls[i].op = "pack"}

UnpackCalls == {i \in 1..Len(calls) : calls[i].op = "unpack"}

\* Call i is unpack of (a prefix of) the buffer call i - 1, a pack, returned.
OfPacked(i) ==
    /\ i \in UnpackCalls
    /\ i - 1 \in PackCalls
    /\ calls[i - 1].kind = "Buffer"

(***************************************************************************)
(* C1: pack(v1, ..., vN) of non-cyclic values returns the concatenation,   *)
(* in argument order, of pack(v1), ..., pack(vN).                          *)
(***************************************************************************)
C1_PackConcatenates ==
    \A i \in PackCalls :
        LET c == calls[i]
        IN  (\A j \in 1..Len(c.args) : ~Cyclic(c.args[j])) =>
                /\ c.kind = "Buffer"
                /\ c.bytes = Concat([j \in 1..Len(c.args) |-> pack(<<c.args[j]>>).bytes])

(***************************************************************************)
(* C2: round trip: unpack of pack(v) returns a value equal to v, with 0    *)
(* bytes remaining, for every value v but -0 (and undefined and Buffers,   *)
(* which the data model maps to null and to text).                         *)
(***************************************************************************)
RoundTrips(v) ==
    /\ v.t \notin {"undefined", "buf"}
    /\ v # Num(TRUE, Zeros(8), FALSE)
    /\ ~Cyclic(v)

C2_RoundTrip ==
    \A i \in UnpackCalls :
        (/\ OfPacked(i)
         /\ Len(calls[i - 1].args) = 1
         /\ RoundTrips(calls[i - 1].args[1])
         /\ calls[i].args[1].bytes = calls[i - 1].bytes) =>
            /\ calls[i].kind = "value"
            /\ calls[i].value = Tree(calls[i - 1].args[1])
            /\ (i = Len(calls) => bytes_remaining = 0)

C4_CycleAbortsPack ==
    \A i \in PackCalls :
        (\E j \in 1..Len(calls[i].args) : Cyclic(calls[i].args[j])) =>
            calls[i].kind = "TypeError" /\ calls[i].bytes = <<>>

(***************************************************************************)
(* C5: unpack of an integer returns the integer itself: n for an unsigned  *)
(* node holding n, m for a signed node holding m, whatever their size.     *)
(***************************************************************************)
C5_IntegersDecodeDirect ==
    \A i \in UnpackCalls :
        calls[i].kind = "value" =>
            LET mo == msgpack_unpack(calls[i].args[1].bytes).mo
            IN  /\ mo.type = "POSITIVE_INTEGER" =>
                        calls[i].value = Num(FALSE, mo.u64, FALSE)
                /\ mo.type = "NEGATIVE_INTEGER" =>
                        calls[i].value = Num(TRUE, Negate(mo.i64), FALSE)

(***************************************************************************)
(* C6: unpack of a proper prefix of pack(v) returns undefined: it throws   *)
(* nothing and returns no value.                                           *)
(***************************************************************************)
C6_TruncatedIsIncomplete ==
    \A i \in UnpackCalls :
        (/\ OfPacked(i)
         /\ Len(calls[i].args[1].bytes) < Len(calls[i - 1].bytes)) =>
            calls[i].kind = "undefined" /\ calls[i].value = Undefined

\* {a: 1, b: [1, 2, 3]} packed, and all but its last byte unpacked.
C6_Witness_OneShort ==
    /\ Len(calls) = 2
    /\ calls[1].args = <<Ref(1)>>
    /\ OfPacked(2)
    /\ Len(calls[2].args[1].bytes) = Len(calls[1].bytes) - 1
    /\ calls[2].kind = "undefined"

(***************************************************************************)
(* C7: unpack of a buffer that starts with one complete object returns     *)
(* that object's value and sets bytes_remaining to the number of bytes     *)
(* after it; after pack(v1, v2) that is the length of pack(v2).            *)
(***************************************************************************)
C7_BytesRemainingIsRest ==
    \A i \in UnpackCalls :
        (/\ OfPacked(i)
         /\ i = Len(calls)
         /\ \A j \in 1..Len(calls[i - 1].args) : ~Cyclic(calls[i - 1].args[j])
         /\ calls[i].args[1].bytes = calls[i - 1].bytes) =>
            LET a     == calls[i - 1].args
                first == pack(<<a[1]>>).bytes
            IN  /\ calls[i].kind = "value"
                /\ calls[i].value = unpack(<<Buf(first)>>, -1).r.value
                /\ bytes_remaining = Len(calls[i - 1].bytes) - Len(first)
                /\ Len(a) = 2 => bytes_remaining = Len(pack(<<a[2]>>).bytes)

(***************************************************************************)
(* C8: a number becomes a Double node iff it has a fractional part, an     *)
(* unsigned node iff it is whole and above 0, a signed node iff it is      *)
(* whole and at most 0.                                                    *)
(***************************************************************************)
C8_NumericNodeSelection ==
    \A i \in PackCalls :
        LET d == calls[i].args[1]
        IN  d.t = "num" =>
              LET n == calls[i].nodes[1].type
              IN  /\ n = "DOUBLE" <=> d.half
                  /\ n = "POSITIVE_INTEGER" <=> (~d.half /\ ~d.neg /\ ~IsZero(d.mag))
                  /\ n = "NEGATIVE_INTEGER" <=> (~d.half /\ (d.neg \/ IsZero(d.mag)))

\* 0 was packed and took the signed path.
C8_Witness_Zero ==
    \E i \in PackCalls :
        /\ calls[i].args[1] = Whole(0)
        /\ calls[i].nodes[1].type = "NEGATIVE_INTEGER"

(***************************************************************************)
(* C9: when ~MsgpackCycle runs at the end of a pack call, successful or    *)
(* failed on a cycle at any depth, _objs is empty: its assertion holds.    *)
(***************************************************************************)
C9_GuardEmptyAtTeardown ==
    \A i \in PackCalls : calls[i].objs = <<>> /\ calls[i].kind # "abort"

(***************************************************************************)
(* C10: bytes_remaining is written only by an unpack call whose parse      *)
(* succeeds: after any sequence of calls it holds what the most recent     *)
(* such call set (the bytes after the object in that call's buffer), and   *)
(* is unset (-1) if there was none.                                        *)
(***************************************************************************)
C10_SetOnlyOnSuccess ==
    LET parsed == {i \in UnpackCalls : calls[i].kind = "value"}
    IN  IF parsed = {} THEN bytes_remaining = -1
        ELSE LET i == CHOOSE k \in parsed : \A m \in parsed : m <= k
                 b == calls[i].args[1].bytes
             IN  bytes_remaining = Len(b) - Parse(b, 0).off

\* A call returned undefined or threw, and bytes_remaining still holds more
\* than the whole length of that call's buffer.
C10_Witness_Stale ==
    /\ calls # <<>>
    /\ Last.op = "unpack"
    /\ Last.kind \in {"undefined", "Error"}
    /\ bytes_remaining > Len(Last.args[1].bytes)

====
